---- MODULE Spec2Model ----
(***************************************************************************)
(* Newsify: the truthfulness pipeline of main.py (get_truthfulness_score)  *)
(* with its sanitizer, its chunker, its score aggregation and its TTL      *)
(* result cache, as served by the Flask application of server.py, and the  *)
(* article search of mediacloud_integration.py (search_articles with its   *)
(* own TTL cache, analyze_articles_by_planet).                             *)
(*                                                                         *)
(* Strings are sequences of one-character strings.  Probabilities are      *)
(* integers in units of 1/ScoreOne; a quotient that Python holds in a      *)
(* float is kept exact as a pair <<numerator, denominator>>.               *)
(***************************************************************************)
EXTENDS Integers, Sequences, FiniteSets, TLC

VARIABLES
    _cache,           \* main.py:35   cache_key -> (result, timestamp)
    _model,           \* main.py:29   the fake-news model, "None" until loaded
    _satire_model,    \* main.py:31   the satire model, "None" until loaded
    now,              \* datetime.now(), in seconds
    pc,               \* per request: the place in get_truthfulness_score
    article_input,    \* per request: the argument of get_truthfulness_score
    article_text,     \* per request: the resolved article text
    source,           \* per request: "URL" or "Text"
    cached,           \* per request: (result, timestamp) read by check_cache
    fake_news_scores, \* per request: main.py:288
    satire_scores,    \* per request: main.py:312
    final_score,      \* per request: main.py:321, before rounding
    result,           \* per request: the dict built at main.py:331
    ret,              \* per request: what get_truthfulness_score returned
    exc,              \* per request: the exception that left it, or "None"
    text,             \* chunk_text's argument `text`
    max_tokens,       \* chunk_text's argument `max_tokens`
    chunks,           \* chunk_text's return value
    returned,         \* whether chunk_text has returned
    load_attempts,    \* main.py:45-46, 51-52: from_pretrained calls so far
    extracted_text,   \* clean_extracted_text's argument `text`
    cleaned_text,     \* clean_extracted_text's return value
    cleaned,          \* whether clean_extracted_text has returned
    _mediacloud_cache,   \* mediacloud_integration.py:26  key -> (articles, timestamp)
    search_args,         \* search_articles' arguments (query, limit)
    articles,            \* what search_articles returned
    story_list_called,   \* whether that search called the MediaCloud API
    apc,                 \* the place in analyze_articles_by_planet
    articles_per_planet, \* analyze_articles_by_planet's argument
    article_index,       \* mediacloud_integration.py:306  the loop's position
    results_by_planet,   \* mediacloud_integration.py:302
    total_processed,     \* mediacloud_integration.py:303
    analysis             \* what analyze_articles_by_planet returned

vars == <<_cache, _model, _satire_model, load_attempts, now, pc,
          article_input, article_text, source, cached, fake_news_scores,
          satire_scores, final_score, result, ret, exc, text, max_tokens,
          chunks, returned,
          extracted_text, cleaned_text, cleaned, _mediacloud_cache,
          search_args, articles, story_list_called, apc, articles_per_planet,
          article_index, results_by_planet, total_processed, analysis>>

pipeline_vars == <<_cache, _model, _satire_model, load_attempts, now, pc,
                   article_input, article_text, source, cached, fake_news_scores,
                   satire_scores, final_score, result, ret, exc>>

chunker_vars == <<text, max_tokens, chunks, returned>>

cleaner_vars == <<extracted_text, cleaned_text, cleaned>>

search_vars == <<_mediacloud_cache, search_args, articles, story_list_called>>

analyze_vars == <<apc, articles_per_planet, article_index, results_by_planet,
                  total_processed, analysis>>

\* What get_truthfulness_score leaves alone.
other_vars == <<chunker_vars, cleaner_vars, search_vars, analyze_vars>>

(***************************************************************************)
(* Bounds of the model.                                                    *)
(***************************************************************************)
MaxLen == 7        \* longest text handed to chunk_text on its own
MaxTokens == 1     \* largest token budget handed to chunk_text on its own
MaxNow == 3600     \* the clock stops advancing here
MaxLoadFailures == 1  \* loads of the satire model that fail, at most
MaxSentences == 3  \* most sentences of a text handed to clean_extracted_text
MaxStories == 2    \* most stories mc.story_list gives for a search
MaxPerPlanet == 2  \* largest articles_per_planet of an analysis

(***************************************************************************)
(* Text.                                                                   *)
(***************************************************************************)
Alphabet == {"a", "b", " "}

IsSpace(c) == c = " "

Texts(n) == UNION {[1..k -> Alphabet] : k \in 0..n}

\* str.split(): the maximal runs of non-whitespace characters, in order.
RECURSIVE split(_)
split(s) ==
    IF \A i \in 1..Len(s) : IsSpace(s[i]) THEN <<>>
    ELSE LET b == CHOOSE i \in 1..Len(s) :
                      /\ ~IsSpace(s[i])
                      /\ \A j \in 1..(i - 1) : IsSpace(s[j])
             e == CHOOSE i \in b..Len(s) :
                      /\ i = Len(s) \/ IsSpace(s[i + 1])
                      /\ \A j \in b..i : ~IsSpace(s[j])
         IN  <<SubSeq(s, b, e)>> \o split(SubSeq(s, e + 1, Len(s)))

\* ' '.join(words)
RECURSIVE join(_)
join(words) ==
    IF words = <<>> THEN <<>>
    ELSE IF Len(words) = 1 THEN words[1]
    ELSE words[1] \o <<" ">> \o join(Tail(words))

(***************************************************************************)
(* chunk_text, main.py:169-189.                                            *)
(***************************************************************************)
chars_per_chunk_x5(tokens) == tokens * 5

chars_per_chunk_x8(tokens) == tokens * 8

chars_per_chunk(tokens) == tokens * 4

\* main.py:186-187 without the test: the last partial chunk is forgotten.
emit_last_dropped(done, current_chunk) == done

\* main.py:186-187 without the test: an empty last chunk is emitted too.
emit_last_always(done, current_chunk) == Append(done, join(current_chunk))

\* main.py:186-187: the last partial chunk is emitted when it holds a word.
emit_last(done, current_chunk) ==
    IF current_chunk # <<>> THEN Append(done, join(current_chunk)) ELSE done

\* main.py:177-184: the loop over the words, from word i on.
RECURSIVE chunk_loop(_, _, _, _, _, _)
chunk_loop(words, i, done, current_chunk, current_length, budget) ==
    IF i > Len(words) THEN emit_last(done, current_chunk)
    ELSE LET length == current_length + Len(words[i]) + 1
             chunk  == Append(current_chunk, words[i])
         IN  IF length > budget
             THEN chunk_loop(words, i + 1, Append(done, join(chunk)), <<>>, 0, budget)
             ELSE chunk_loop(words, i + 1, done, chunk, length, budget)

chunk_text(s, tokens) ==
    chunk_loop(split(s), 1, <<>>, <<>>, 0, chars_per_chunk(tokens))

(***************************************************************************)
(* The inputs of the pipeline.  A request carries the name of its input;   *)
(* RawInput and TextOf give the characters.                                *)
(***************************************************************************)
Word(c, n) == [i \in 1..n |-> c]

TextNames == {"empty", "blank", "short", "page", "long"}

TextOf(name) ==
    CASE name = "empty" -> <<>>
      [] name = "blank" -> <<" ", " ">>
      [] name = "short" -> <<"a", "a", " ", "b", "b">>
      [] name = "page"  -> Word("a", 60) \o <<" ">> \o Word("b", 60)
      [] name = "long"  -> Word("a", 1100) \o <<" ">> \o Word("b", 1100)
                               \o <<" ">> \o Word("a", 100)

UrlNames == {"url", "url2"}

InputNames == TextNames \cup UrlNames

RawInput(name) ==
    CASE name = "url"  -> <<"h", "t", "t", "p", "s", ":", "/", "/", "n", "/", "a">>
      [] name = "url2" -> <<"h", "t", "t", "p", ":", "/", "/", "n", "/", "b">>
      [] OTHER -> TextOf(name)

HTTP == <<"h", "t", "t", "p", ":", "/", "/">>

HTTPS == <<"h", "t", "t", "p", "s", ":", "/", "/">>

\* str.startswith
startswith(s, prefix) ==
    Len(s) >= Len(prefix) /\ SubSeq(s, 1, Len(prefix)) = prefix

\* main.py:261
is_url(name) ==
    startswith(RawInput(name), HTTP) \/ startswith(RawInput(name), HTTPS)

\* main.py:159-162: what extract_article_text returns for a page whose
\* cleaned text is `page` ("None": the fetch or the parse raised).
MIN_ARTICLE_CHARS == 100

\* main.py:159-162 without the test: any text that was extracted is returned.
extract_article_text_unchecked(page) == page

extract_article_text(page) ==
    IF page = "None" THEN "None"
    ELSE IF TextOf(page) = <<>> \/ Len(TextOf(page)) < MIN_ARTICLE_CHARS
         THEN "None"
         ELSE page

(***************************************************************************)
(* Scores.  An oracle probability is an integer in 0..ScoreOne; Frac is    *)
(* the exact value num/den in that unit.                                   *)
(***************************************************************************)
ScoreOne == 100000

RealProbs == {0, 49996, 50000, 88888}

SarcasmProbs == {0, 50002}

Frac(n, d) == [num |-> n, den |-> d]

Less(a, b) == a.num * b.den < b.num * a.den

RECURSIVE sum(_)
sum(scores) == IF scores = <<>> THEN 0 ELSE Head(scores) + sum(Tail(scores))

RECURSIVE max_of(_)
max_of(scores) ==
    IF Len(scores) = 1 THEN scores[1]
    ELSE LET m == max_of(Tail(scores))
         IN  IF m > scores[1] THEN m ELSE scores[1]

\* Python's max(a, b): the first of the largest.
py_max(a, b) == IF Less(a, b) THEN b ELSE a

\* main.py:308 with the divisor off by one.
final_fake_score_of_biased(scores) ==
    IF scores # <<>> THEN Frac(sum(scores), Len(scores) + 1) ELSE Frac(0, 1)

\* main.py:308
final_fake_score_of(scores) ==
    IF scores # <<>> THEN Frac(sum(scores), Len(scores)) ELSE Frac(0, 1)

\* main.py:318
sarcasm_score_of(scores) ==
    IF scores # <<>> THEN Frac(max_of(scores), 1) ELSE Frac(0, 1)

\* main.py:321
final_score_of(fake, satire) ==
    py_max(final_fake_score_of(fake), sarcasm_score_of(satire))

\* main.py:15-25
PLANETS == <<"Sun", "Mercury", "Venus", "Earth", "Mars", "Jupiter",
             "Saturn", "Uranus", "Neptune">>

\* main.py:324 with len(PLANETS) - 1 for len(PLANETS) as the scale.
planet_index_scaled_to_last(score) ==
    LET i == (score.num * (Len(PLANETS) - 1)) \div (score.den * ScoreOne)
    IN  IF i < Len(PLANETS) - 1 THEN i ELSE Len(PLANETS) - 1

\* main.py:324: min(int(final_score * len(PLANETS)), len(PLANETS) - 1)
planet_index(score) ==
    LET i == (score.num * Len(PLANETS)) \div (score.den * ScoreOne)
    IN  IF i < Len(PLANETS) - 1 THEN i ELSE Len(PLANETS) - 1

\* main.py:328 with >= for >.
predicted_label_inclusive(score) ==
    IF score.num * 2 >= score.den * ScoreOne THEN "Fake" ELSE "Real"

\* main.py:328: "Fake" if final_score > 0.5 else "Real"
predicted_label(score) ==
    IF score.num * 2 > score.den * ScoreOne THEN "Fake" ELSE "Real"

\* round(x, 4), in units of 1/ResultUnit.  An exact decimal tie goes to the
\* even neighbour; RealProbs and SarcasmProbs produce no tie.
ResultUnit == 10000

round4(x) ==
    LET d == x.den * (ScoreOne \div ResultUnit)
        q == x.num \div d
        r == x.num % d
    IN  IF 2 * r < d THEN q
        ELSE IF 2 * r > d THEN q + 1
        ELSE IF q % 2 = 0 THEN q ELSE q + 1

FAKE_MAX_TOKENS == 450

SATIRE_MAX_TOKENS == 512

\* main.py:285 and main.py:311, for each text of the model.
fake_news_chunks == [t \in TextNames |-> chunk_text(TextOf(t), FAKE_MAX_TOKENS)]

satire_chunks == [t \in TextNames |-> chunk_text(TextOf(t), SATIRE_MAX_TOKENS)]

\* main.py:331-340
build_result(fake, satire, src, n_chunks) ==
    LET fs == final_score_of(fake, satire)
    IN  [score            |-> round4(fs),
         planet           |-> PLANETS[planet_index(fs) + 1],
         label            |-> predicted_label(fs),
         confidence       |-> round4(fs),
         fake_news_score  |-> round4(final_fake_score_of(fake)),
         sarcasm_score    |-> round4(sarcasm_score_of(satire)),
         source           |-> src,
         chunks_processed |-> n_chunks]

\* main.py:266-273
error_result ==
    [error  |-> "Failed to fetch or extract article from URL",
     score  |-> "None", planet |-> "None", label |-> "None",
     confidence |-> "None", source |-> "URL"]

NoResult == [none |-> TRUE]

IsResult(r) == "score" \in DOMAIN r /\ "error" \notin DOMAIN r

(***************************************************************************)
(* The result cache, main.py:201-222.                                      *)
(***************************************************************************)
CACHE_TTL_SECONDS == 3600

\* main.py:201-204: the MD5 digest of the text; distinct texts of the model
\* have distinct digests.
get_cache_key(t) == <<"md5", t>>

\* main.py:212 with <= for <.
is_fresh_inclusive(timestamp) == now - timestamp <= CACHE_TTL_SECONDS

\* main.py:212
is_fresh(timestamp) == now - timestamp < CACHE_TTL_SECONDS

\* _cache[cache_key] = value
cache_put(c, key, value) ==
    [k \in DOMAIN c \cup {key} |-> IF k = key THEN value ELSE c[k]]

\* del _cache[cache_key]
cache_del(c, key) == [k \in DOMAIN c \ {key} |-> c[k]]

\* bool(d) of a dict
truthy(d) == DOMAIN d # {}

(***************************************************************************)
(* The requests.                                                           *)
(***************************************************************************)
Procs == {"t1", "t2"}

MainThread == {"t1"}

Inputs == {"empty", "blank", "long", "url"}

TickSteps == {CACHE_TTL_SECONDS - 1, CACHE_TTL_SECONDS}

Pages == {"None", "short", "long"}

InitPipeline ==
    /\ _cache = <<>>
    /\ _model = "None"
    /\ _satire_model = "None"
    /\ load_attempts = [model |-> 0, satire |-> 0]
    /\ now = 0
    /\ pc = [p \in Procs |-> "idle"]
    /\ article_input = [p \in Procs |-> "None"]
    /\ article_text = [p \in Procs |-> "None"]
    /\ source = [p \in Procs |-> "None"]
    /\ cached = [p \in Procs |-> <<>>]
    /\ fake_news_scores = [p \in Procs |-> <<>>]
    /\ satire_scores = [p \in Procs |-> <<>>]
    /\ final_score = [p \in Procs |-> Frac(0, 1)]
    /\ result = [p \in Procs |-> NoResult]
    /\ ret = [p \in Procs |-> NoResult]
    /\ exc = [p \in Procs |-> "None"]

InitChunker ==
    /\ text = <<>>
    /\ max_tokens = 0
    /\ chunks = <<>>
    /\ returned = FALSE

InitCleaner ==
    /\ extracted_text = <<>>
    /\ cleaned_text = <<>>
    /\ cleaned = FALSE

InitSearch ==
    /\ _mediacloud_cache = <<>>
    /\ search_args = <<>>
    /\ articles = <<>>
    /\ story_list_called = FALSE

InitAnalyze ==
    /\ apc = "idle"
    /\ articles_per_planet = 1
    /\ article_index = 0
    /\ results_by_planet = <<>>
    /\ total_processed = 0
    /\ analysis = NoResult

Init ==
    /\ InitPipeline
    /\ InitChunker
    /\ InitCleaner
    /\ InitSearch
    /\ InitAnalyze

\* datetime.now() advances.
Tick(d) ==
    /\ now + d <= MaxNow
    /\ now' = now + d
    /\ UNCHANGED <<_cache, _model, _satire_model, load_attempts, pc,
                   article_input, article_text, source, cached,
                   fake_news_scores, satire_scores, final_score, result,
                   ret, exc>>
    /\ UNCHANGED other_vars

\* server.py:49, server.py:153: a request calls get_truthfulness_score.
Request(p, inp) ==
    /\ pc[p] = "idle"
    /\ pc' = [pc EXCEPT ![p] = "initialize_model"]
    /\ article_input' = [article_input EXCEPT ![p] = inp]
    /\ UNCHANGED <<_cache, _model, _satire_model, load_attempts, now, article_text, source,
                   cached, fake_news_scores, satire_scores, final_score,
                   result, ret, exc>>
    /\ UNCHANGED other_vars

\* main.py:43, main.py:49: a load is attempted when the global is None.
attempts_if_none(m) == IF m = "None" THEN 1 ELSE 0

\* main.py:39-57, called at main.py:258.  satire_loads: whether loading the
\* satire model succeeds, should it be attempted; it fails at most
\* MaxLoadFailures times.
InitializeModel(p, satire_loads) ==
    /\ pc[p] = "initialize_model"
    /\ satire_loads \/ load_attempts.satire < MaxLoadFailures
    /\ load_attempts' =
           [model  |-> load_attempts.model + attempts_if_none(_model),
            satire |-> load_attempts.satire + attempts_if_none(_satire_model)]
    /\ _model' = "loaded"
    /\ _satire_model' =
           IF _satire_model = "None"
           THEN (IF satire_loads THEN "loaded" ELSE "None")
           ELSE _satire_model
    /\ pc' = [pc EXCEPT ![p] = "resolve"]
    /\ UNCHANGED <<_cache, now, article_input, article_text, source, cached,
                   fake_news_scores, satire_scores, final_score, result, ret,
                   exc>>
    /\ UNCHANGED other_vars

\* main.py:260-276.  page: the cleaned text of the fetched page, for a URL.
Resolve(p, page) ==
    /\ pc[p] = "resolve"
    /\ IF is_url(article_input[p])
       THEN LET t == extract_article_text(page)
            IN  /\ article_text' = [article_text EXCEPT ![p] = t]
                /\ source' = [source EXCEPT ![p] = "URL"]
                /\ IF t = "None"
                   THEN /\ ret' = [ret EXCEPT ![p] = error_result]
                        /\ pc' = [pc EXCEPT ![p] = "done"]
                   ELSE /\ ret' = ret
                        /\ pc' = [pc EXCEPT ![p] = "check_cache"]
       ELSE /\ article_text' = [article_text EXCEPT ![p] = article_input[p]]
            /\ source' = [source EXCEPT ![p] = "Text"]
            /\ ret' = ret
            /\ pc' = [pc EXCEPT ![p] = "check_cache"]
    /\ UNCHANGED <<_cache, _model, _satire_model, load_attempts, now, article_input, cached,
                   fake_news_scores, satire_scores, final_score, result, exc>>
    /\ UNCHANGED other_vars

\* main.py:209: cache_key in _cache
CheckCacheIn(p) ==
    /\ pc[p] = "check_cache"
    /\ pc' = [pc EXCEPT ![p] =
                 IF get_cache_key(article_text[p]) \in DOMAIN _cache
                 THEN "check_cache_read" ELSE "fake_loop"]
    /\ UNCHANGED <<_cache, _model, _satire_model, load_attempts, now, article_input,
                   article_text, source, cached, fake_news_scores,
                   satire_scores, final_score, result, ret, exc>>
    /\ UNCHANGED other_vars

\* main.py:210: result, timestamp = _cache[cache_key]
CheckCacheRead(p) ==
    /\ pc[p] = "check_cache_read"
    /\ IF get_cache_key(article_text[p]) \in DOMAIN _cache
       THEN /\ cached' = [cached EXCEPT ![p] = _cache[get_cache_key(article_text[p])]]
            /\ pc' = [pc EXCEPT ![p] = "check_cache_ttl"]
            /\ exc' = exc
       ELSE /\ cached' = cached
            /\ pc' = [pc EXCEPT ![p] = "raised"]
            /\ exc' = [exc EXCEPT ![p] = "KeyError"]
    /\ UNCHANGED <<_cache, _model, _satire_model, load_attempts, now, article_input,
                   article_text, source, fake_news_scores, satire_scores,
                   final_score, result, ret>>
    /\ UNCHANGED other_vars

\* main.py:212-213 and main.py:281-282
CheckCacheTtl(p) ==
    /\ pc[p] = "check_cache_ttl"
    /\ IF is_fresh(cached[p][2])
       THEN IF truthy(cached[p][1])
            THEN /\ ret' = [ret EXCEPT ![p] = cached[p][1]]
                 /\ pc' = [pc EXCEPT ![p] = "done"]
            ELSE /\ ret' = ret
                 /\ pc' = [pc EXCEPT ![p] = "fake_loop"]
       ELSE /\ ret' = ret
            /\ pc' = [pc EXCEPT ![p] = "check_cache_del"]
    /\ UNCHANGED <<_cache, _model, _satire_model, load_attempts, now, article_input,
                   article_text, source, cached, fake_news_scores,
                   satire_scores, final_score, result, exc>>
    /\ UNCHANGED other_vars

\* main.py:215-217: del _cache[cache_key]
CheckCacheDel(p) ==
    /\ pc[p] = "check_cache_del"
    /\ IF get_cache_key(article_text[p]) \in DOMAIN _cache
       THEN /\ _cache' = cache_del(_cache, get_cache_key(article_text[p]))
            /\ pc' = [pc EXCEPT ![p] = "fake_loop"]
            /\ exc' = exc
       ELSE /\ _cache' = _cache
            /\ pc' = [pc EXCEPT ![p] = "raised"]
            /\ exc' = [exc EXCEPT ![p] = "KeyError"]
    /\ UNCHANGED <<_model, _satire_model, load_attempts, now, article_input, article_text,
                   source, cached, fake_news_scores, satire_scores,
                   final_score, result, ret>>
    /\ UNCHANGED other_vars

\* main.py:289-305: one chunk through the fake-news model, which gives the
\* probability real_probability of "real".
ScoreFakeChunk(p, real_probability) ==
    /\ pc[p] = "fake_loop"
    /\ Len(fake_news_scores[p]) < Len(fake_news_chunks[article_text[p]])
    /\ fake_news_scores' = [fake_news_scores EXCEPT ![p] =
                               Append(@, ScoreOne - real_probability)]
    /\ UNCHANGED <<_cache, _model, _satire_model, load_attempts, now, pc, article_input,
                   article_text, source, cached, satire_scores, final_score,
                   result, ret, exc>>
    /\ UNCHANGED other_vars

\* main.py:290-301: the tokenizer or the model raises; nothing catches it.
FakeChunkRaises(p) ==
    /\ pc[p] = "fake_loop"
    /\ Len(fake_news_scores[p]) < Len(fake_news_chunks[article_text[p]])
    /\ pc' = [pc EXCEPT ![p] = "raised"]
    /\ exc' = [exc EXCEPT ![p] = "InferenceError"]
    /\ UNCHANGED <<_cache, _model, _satire_model, load_attempts, now, article_input,
                   article_text, source, cached, fake_news_scores,
                   satire_scores, final_score, result, ret>>
    /\ UNCHANGED other_vars

\* main.py:289, main.py:308-312: the fake-news loop is over.
FakeLoopEnd(p) ==
    /\ pc[p] = "fake_loop"
    /\ Len(fake_news_scores[p]) = Len(fake_news_chunks[article_text[p]])
    /\ pc' = [pc EXCEPT ![p] = "satire_loop"]
    /\ UNCHANGED <<_cache, _model, _satire_model, load_attempts, now, article_input,
                   article_text, source, cached, fake_news_scores,
                   satire_scores, final_score, result, ret, exc>>
    /\ UNCHANGED other_vars

\* main.py:313-315 with get_satire_score, main.py:225-246: 0.0 without a
\* satire model, else the model's probability of sarcasm.
ScoreSatireChunk(p, sarcasm) ==
    /\ pc[p] = "satire_loop"
    /\ Len(satire_scores[p]) < Len(satire_chunks[article_text[p]])
    /\ satire_scores' = [satire_scores EXCEPT ![p] =
                            Append(@, IF _satire_model = "None" THEN 0 ELSE sarcasm)]
    /\ UNCHANGED <<_cache, _model, _satire_model, load_attempts, now, pc, article_input,
                   article_text, source, cached, fake_news_scores,
                   final_score, result, ret, exc>>
    /\ UNCHANGED other_vars

\* main.py:230-241: the satire tokenizer or model raises; nothing catches it.
SatireChunkRaises(p) ==
    /\ pc[p] = "satire_loop"
    /\ Len(satire_scores[p]) < Len(satire_chunks[article_text[p]])
    /\ _satire_model # "None"
    /\ pc' = [pc EXCEPT ![p] = "raised"]
    /\ exc' = [exc EXCEPT ![p] = "InferenceError"]
    /\ UNCHANGED <<_cache, _model, _satire_model, load_attempts, now, article_input,
                   article_text, source, cached, fake_news_scores,
                   satire_scores, final_score, result, ret>>
    /\ UNCHANGED other_vars

\* main.py:313, main.py:318-340: the satire loop is over; the result is built.
BuildResult(p) ==
    /\ pc[p] = "satire_loop"
    /\ Len(satire_scores[p]) = Len(satire_chunks[article_text[p]])
    /\ final_score' = [final_score EXCEPT ![p] =
                          final_score_of(fake_news_scores[p], satire_scores[p])]
    /\ result' = [result EXCEPT ![p] =
                     build_result(fake_news_scores[p], satire_scores[p], source[p],
                                  Len(fake_news_chunks[article_text[p]]))]
    /\ pc' = [pc EXCEPT ![p] = "store_cache"]
    /\ UNCHANGED <<_cache, _model, _satire_model, load_attempts, now, article_input,
                   article_text, source, cached, fake_news_scores,
                   satire_scores, ret, exc>>
    /\ UNCHANGED other_vars

\* main.py:343-345 with store_cache, main.py:220-222
StoreCache(p) ==
    /\ pc[p] = "store_cache"
    /\ _cache' = cache_put(_cache, get_cache_key(article_text[p]), <<result[p], now>>)
    /\ ret' = [ret EXCEPT ![p] = result[p]]
    /\ pc' = [pc EXCEPT ![p] = "done"]
    /\ UNCHANGED <<_model, _satire_model, load_attempts, now, article_input, article_text,
                   source, cached, fake_news_scores, satire_scores,
                   final_score, result, exc>>
    /\ UNCHANGED other_vars

\* server.py:51-75: the route answers and the request ends.
Respond(p) ==
    /\ pc[p] \in {"done", "raised"}
    /\ pc' = [pc EXCEPT ![p] = "idle"]
    /\ article_input' = [article_input EXCEPT ![p] = "None"]
    /\ article_text' = [article_text EXCEPT ![p] = "None"]
    /\ source' = [source EXCEPT ![p] = "None"]
    /\ cached' = [cached EXCEPT ![p] = <<>>]
    /\ fake_news_scores' = [fake_news_scores EXCEPT ![p] = <<>>]
    /\ satire_scores' = [satire_scores EXCEPT ![p] = <<>>]
    /\ final_score' = [final_score EXCEPT ![p] = Frac(0, 1)]
    /\ result' = [result EXCEPT ![p] = NoResult]
    /\ ret' = [ret EXCEPT ![p] = NoResult]
    /\ exc' = [exc EXCEPT ![p] = "None"]
    /\ UNCHANGED <<_cache, _model, _satire_model, load_attempts, now>>
    /\ UNCHANGED other_vars

\* The steps of get_truthfulness_score; the fetched pages and the models'
\* answers are drawn from the given sets.
Evaluate(p, pages, real_probabilities, sarcasms) ==
    \/ \E satire_loads \in BOOLEAN : InitializeModel(p, satire_loads)
    \/ \E page \in pages : Resolve(p, page)
    \/ CheckCacheIn(p)
    \/ CheckCacheRead(p)
    \/ CheckCacheTtl(p)
    \/ CheckCacheDel(p)
    \/ \E real_probability \in real_probabilities : ScoreFakeChunk(p, real_probability)
    \/ FakeChunkRaises(p)
    \/ FakeLoopEnd(p)
    \/ \E sarcasm \in sarcasms : ScoreSatireChunk(p, sarcasm)
    \/ SatireChunkRaises(p)
    \/ BuildResult(p)
    \/ StoreCache(p)

\* A request served by the routes of server.py: the evaluation, then the
\* response.
Step(p, pages, real_probabilities, sarcasms) ==
    \/ Evaluate(p, pages, real_probabilities, sarcasms)
    \/ Respond(p)

\* One evaluation at a time: the calls of one thread.
Next ==
    \/ \E d \in TickSteps : Tick(d)
    \/ \E p \in MainThread, inp \in Inputs : Request(p, inp)
    \/ \E p \in MainThread : Step(p, Pages, RealProbs, SarcasmProbs)

Spec == Init /\ [][Next]_vars

(***************************************************************************)
(* chunk_text on its own: every text of at most MaxLen characters, every   *)
(* token budget up to MaxTokens.                                           *)
(***************************************************************************)
InitChunk ==
    /\ InitPipeline
    /\ InitCleaner
    /\ InitSearch
    /\ InitAnalyze
    /\ text \in Texts(MaxLen)
    /\ max_tokens \in 0..MaxTokens
    /\ chunks = <<>>
    /\ returned = FALSE

\* main.py:169-189
ChunkText ==
    /\ ~returned
    /\ chunks' = chunk_text(text, max_tokens)
    /\ returned' = TRUE
    /\ UNCHANGED <<text, max_tokens>>
    /\ UNCHANGED <<pipeline_vars, cleaner_vars, search_vars, analyze_vars>>

NextChunk == ChunkText

SpecChunk == InitChunk /\ [][NextChunk]_vars

RECURSIVE flatten(_)
flatten(seqs) == IF seqs = <<>> THEN <<>> ELSE Head(seqs) \o flatten(Tail(seqs))

ChunkWords == [i \in 1..Len(chunks) |-> split(chunks[i])]

\* The character budget of the claims: 4 characters per token.
Budget == 4 * max_tokens

Last(s) == s[Len(s)]

\* C2: the words of the chunks, in chunk order, are exactly the words of the
\* input text: none lost, duplicated, reordered or split.
C2_ChunksPartitionWords ==
    returned => flatten(ChunkWords) = split(text)

C2_Witness ==
    /\ returned
    /\ Len(chunks) >= 2
    /\ \E i \in 1..Len(chunks) : Len(ChunkWords[i]) >= 2

\* C3 as claimed: every chunk is within the character budget, or holds a
\* word longer than the budget and is within the budget without that word.
C3_ChunkWithinBudgetButOverlongWord ==
    returned =>
        \A i \in 1..Len(chunks) :
            \/ Len(chunks[i]) <= Budget
            \/ \E k \in 1..Len(ChunkWords[i]) :
                   /\ Len(ChunkWords[i][k]) > Budget
                   /\ Len(chunks[i]) - Len(ChunkWords[i][k]) <= Budget

\* C3 as amended: every chunk exceeds the character budget by at most the
\* length of its last word, whether or not that word is longer than the
\* budget.
C3_ChunkWithinBudgetButLastWord ==
    returned =>
        \A i \in 1..Len(chunks) :
            Len(chunks[i]) <= Budget + Len(Last(ChunkWords[i]))

C3_Witness ==
    /\ returned
    /\ \E i \in 1..Len(chunks) :
           /\ Len(chunks[i]) > Budget
           /\ \A k \in 1..Len(ChunkWords[i]) : Len(ChunkWords[i][k]) <= Budget

\* C4: no chunk is empty, there are no chunks exactly when the text has no
\* words, and the words left over when the text ends are emitted as a last
\* chunk even when it is under the budget.
C4_NoEmptyChunkLastEmitted ==
    returned =>
        /\ \A i \in 1..Len(chunks) : chunks[i] # <<>>
        /\ (chunks = <<>>) <=> (split(text) = <<>>)
        /\ split(text) # <<>> =>
               Last(ChunkWords[Len(chunks)]) = Last(split(text))

C4_Witness ==
    /\ returned
    /\ Len(chunks) >= 2
    /\ Len(Last(chunks)) < Budget

(***************************************************************************)
(* Claims about get_truthfulness_score, one evaluation at a time (Spec).   *)
(***************************************************************************)
Key(p) == get_cache_key(article_text[p])

\* C1: a lookup that finds an entry younger than the TTL returns the stored
\* result, leaves the entry and its timestamp as they are and scores
\* nothing; one that finds it TTL seconds old or older goes on to delete
\* it; scoring starts only without an entry for the key; and the computed
\* result is stored with the current time.
C1_CacheHitWithinTtl ==
    [][\A p \in Procs :
          /\ (pc[p] = "check_cache_ttl" /\ pc'[p] # "check_cache_ttl") =>
                 IF now - _cache[Key(p)][2] < CACHE_TTL_SECONDS
                 THEN /\ pc'[p] = "done"
                      /\ ret'[p] = _cache[Key(p)][1]
                      /\ _cache' = _cache
                      /\ fake_news_scores'[p] = <<>>
                      /\ satire_scores'[p] = <<>>
                 ELSE pc'[p] = "check_cache_del"
          /\ (pc[p] = "check_cache_del" /\ pc'[p] # "check_cache_del") =>
                 pc'[p] = "fake_loop"
          /\ (pc[p] # "fake_loop" /\ pc'[p] = "fake_loop") =>
                 Key(p) \notin DOMAIN _cache'
          /\ (pc[p] = "store_cache" /\ pc'[p] = "done") =>
                 /\ Len(fake_news_scores[p]) = Len(fake_news_chunks[article_text[p]])
                 /\ _cache'[Key(p)] = <<ret'[p], now>>
      ]_vars

\* A result served from an entry 3599 seconds old.
C1_Witness ==
    \E p \in Procs :
        /\ pc[p] = "done"
        /\ IsResult(ret[p])
        /\ result[p] = NoResult
        /\ Len(cached[p]) = 2
        /\ ret[p] = cached[p][1]
        /\ now - cached[p][2] = CACHE_TTL_SECONDS - 1

\* C5: a failure of a scoring model on a chunk does not end the evaluation
\* with that failure.
C5_OracleFailureAbsorbed ==
    \A p \in Procs : pc[p] = "raised" => exc[p] # "InferenceError"

Computed(p) == IsResult(result[p])

ScoresPerUnit == ScoreOne \div ResultUnit

Abs(x) == IF x < 0 THEN -x ELSE x

IntMax(a, b) == IF a < b THEN b ELSE a

\* C6 as claimed: the result's fake signal is the mean of the fake chunk
\* scores, its satire signal the largest satire chunk score (0.0 for no
\* scores), its score the larger of the two, all within [0, 1].
C6_SignalsAreMeanAndMax ==
    \A p \in Procs : Computed(p) =>
        /\ IF fake_news_scores[p] = <<>> THEN result[p].fake_news_score = 0
           ELSE result[p].fake_news_score * ScoresPerUnit * Len(fake_news_scores[p])
                    = sum(fake_news_scores[p])
        /\ IF satire_scores[p] = <<>> THEN result[p].sarcasm_score = 0
           ELSE result[p].sarcasm_score * ScoresPerUnit = max_of(satire_scores[p])
        /\ result[p].score =
               IntMax(result[p].fake_news_score, result[p].sarcasm_score)
        /\ {result[p].score, result[p].fake_news_score, result[p].sarcasm_score}
               \subseteq 0..ResultUnit

\* C6 as amended: the result's fake signal is the mean of the fake chunk
\* scores and its satire signal the largest satire chunk score, each
\* rounded to the nearest 4-decimal value (0.0 for no scores); its score is
\* the larger of the two; all within [0, 1].
C6_SignalsAreRoundedMeanAndMax ==
    \A p \in Procs : Computed(p) =>
        /\ IF fake_news_scores[p] = <<>> THEN result[p].fake_news_score = 0
           ELSE 2 * Abs(result[p].fake_news_score * ScoresPerUnit
                            * Len(fake_news_scores[p]) - sum(fake_news_scores[p]))
                    <= ScoresPerUnit * Len(fake_news_scores[p])
        /\ IF satire_scores[p] = <<>> THEN result[p].sarcasm_score = 0
           ELSE 2 * Abs(result[p].sarcasm_score * ScoresPerUnit
                            - max_of(satire_scores[p])) <= ScoresPerUnit
        /\ result[p].score =
               IntMax(result[p].fake_news_score, result[p].sarcasm_score)
        /\ {result[p].score, result[p].fake_news_score, result[p].sarcasm_score}
               \subseteq 0..ResultUnit

\* Two different fake scores and two different satire scores.
C6_Witness ==
    \E p \in Procs :
        /\ Computed(p)
        /\ Len(fake_news_scores[p]) = 2
        /\ fake_news_scores[p][1] # fake_news_scores[p][2]
        /\ Len(satire_scores[p]) = 2
        /\ satire_scores[p][1] < satire_scores[p][2]
        /\ result[p].fake_news_score < result[p].sarcasm_score

\* C7 as claimed: the label of a result is "Fake" exactly when its score is
\* above 0.5.
C7_LabelFakeIffScoreAboveHalf ==
    \A p \in Procs : Computed(p) =>
        (result[p].label = "Fake" <=> 2 * result[p].score > ResultUnit)

\* C7 as amended: the label is "Fake" exactly when final_score, before it is
\* rounded into the result, is above 0.5, else "Real"; so the stored score
\* of a "Fake" result is at least 0.5 and that of a "Real" one at most 0.5,
\* and an evaluation without chunk scores has score 0 and label "Real".
C7_LabelFakeIffFinalScoreAboveHalf ==
    \A p \in Procs : Computed(p) =>
        /\ result[p].label \in {"Fake", "Real"}
        /\ result[p].label = "Fake" <=>
               2 * final_score[p].num > final_score[p].den * ScoreOne
        /\ result[p].label = "Fake" => 2 * result[p].score >= ResultUnit
        /\ result[p].label = "Real" => 2 * result[p].score <= ResultUnit
        /\ (fake_news_scores[p] = <<>> /\ satire_scores[p] = <<>>) =>
               (result[p].score = 0 /\ result[p].label = "Real")

\* A final_score of exactly 0.5, from scored chunks.
C7_Witness ==
    \E p \in Procs :
        /\ Computed(p)
        /\ fake_news_scores[p] # <<>>
        /\ 2 * final_score[p].num = final_score[p].den * ScoreOne
        /\ result[p].label = "Real"

PlanetIndexOf(name) == CHOOSE i \in 0..(Len(PLANETS) - 1) : PLANETS[i + 1] = name

\* C8 as claimed: the rating is bucket min(floor(9 x score), 8) of the
\* result's score.
C8_PlanetIsBucketOfScore ==
    \A p \in Procs : Computed(p) =>
        LET i == PlanetIndexOf(result[p].planet)
        IN  IF result[p].score = ResultUnit THEN i = Len(PLANETS) - 1
            ELSE /\ i * ResultUnit <= Len(PLANETS) * result[p].score
                 /\ Len(PLANETS) * result[p].score < (i + 1) * ResultUnit

ScoreGrid == {Frac(k * 1234, 1) : k \in 0..81} \cup {Frac(ScoreOne, 1)}

PlanetIndexMonotone ==
    \A a, b \in ScoreGrid : Less(a, b) => planet_index(a) <= planet_index(b)

\* C8 as amended: the rating is bucket min(floor(9 x final_score), 8) of
\* final_score before it is rounded into the result: 0.0 gives bucket 0,
\* 1.0 bucket 8, [i/9, (i+1)/9) bucket i; the index stays within 0..8 and
\* never decreases when final_score increases.
C8_PlanetIsBucketOfFinalScore ==
    \A p \in Procs : Computed(p) =>
        LET i == PlanetIndexOf(result[p].planet)
            f == final_score[p]
        IN  /\ result[p].planet \in {PLANETS[k] : k \in 1..Len(PLANETS)}
            /\ IF f.num = f.den * ScoreOne THEN i = Len(PLANETS) - 1
               ELSE /\ i * f.den * ScoreOne <= Len(PLANETS) * f.num
                    /\ Len(PLANETS) * f.num < (i + 1) * f.den * ScoreOne
            /\ PlanetIndexMonotone

\* A final_score of 1.0, which only the clamp keeps in the last bucket.
C8_Witness ==
    \E p \in Procs :
        /\ Computed(p)
        /\ final_score[p].num = final_score[p].den * ScoreOne
        /\ result[p].planet = "Neptune"

\* C9: every result returned without an error counts at least one chunk.
C9_ChunksProcessedPositive ==
    \A p \in Procs : IsResult(ret[p]) => ret[p].chunks_processed >= 1

(***************************************************************************)
(* The threaded server, server.py:185-186: app.run serves each request on  *)
(* a thread of its own, and the threads share _cache without a lock.       *)
(***************************************************************************)
ConcInputs == {"empty", "page"}

ConcPages == {"None", "page"}

ConcRealProbs == {0, 49996}

ConcSarcasmProbs == {0}

ConcTickSteps == {CACHE_TTL_SECONDS}

NextConc ==
    \/ \E d \in ConcTickSteps : Tick(d)
    \/ \E p \in Procs, inp \in ConcInputs : Request(p, inp)
    \/ \E p \in Procs : Step(p, ConcPages, ConcRealProbs, ConcSarcasmProbs)

SpecConc == Init /\ [][NextConc]_vars

\* Between the membership test of check_cache and its return.
InLookup(p) == pc[p] \in {"check_cache_read", "check_cache_ttl", "check_cache_del"}

\* The step reads, deletes or writes _cache.
CacheAccess(q) ==
    /\ pc[q] \in {"check_cache", "check_cache_read", "check_cache_del", "store_cache"}
    /\ pc'[q] # pc[q]

\* C10: no request reads, deletes or writes the entry of a key while another
\* request is in the middle of a lookup of that key.
C10_CacheAccessExclusive ==
    [][\A p, q \in Procs :
          (p # q /\ CacheAccess(q) /\ InLookup(p)) => Key(p) # Key(q)
      ]_vars

(***************************************************************************)
(* clean_extracted_text, main.py:60-93.                                    *)
(***************************************************************************)
\* main.py:73-74
spam_keywords ==
    <<<<"s", "u", "b", "s", "c", "r", "i", "b", "e">>,
      <<"n", "e", "w", "s", "l", "e", "t", "t", "e", "r">>,
      <<"c", "l", "i", "c", "k", " ", "h", "e", "r", "e">>,
      <<"s", "i", "g", "n", " ", "u", "p">>,
      <<"f", "o", "l", "l", "o", "w", " ", "u", "s">>,
      <<"c", "o", "p", "y", "r", "i", "g", "h", "t">>,
      <<"a", "l", "l", " ", "r", "i", "g", "h", "t", "s", " ", "r", "e",
          "s", "e", "r", "v", "e", "d">>>>

\* main.py:70: the characters of the class [.!?]
SentenceEnds == {".", "!", "?"}

UpperCase == <<"A", "B", "C", "D", "E", "F", "G", "H", "I", "J", "K", "L",
               "M", "N", "O", "P", "Q", "R", "S", "T", "U", "V", "W", "X",
               "Y", "Z">>

LowerCase == <<"a", "b", "c", "d", "e", "f", "g", "h", "i", "j", "k", "l",
               "m", "n", "o", "p", "q", "r", "s", "t", "u", "v", "w", "x",
               "y", "z">>

\* str.lower
lower(s) ==
    [i \in 1..Len(s) |->
        IF \E k \in 1..Len(UpperCase) : UpperCase[k] = s[i]
        THEN LowerCase[CHOOSE k \in 1..Len(UpperCase) : UpperCase[k] = s[i]]
        ELSE s[i]]

\* str.strip
strip(s) ==
    IF \A i \in 1..Len(s) : IsSpace(s[i]) THEN <<>>
    ELSE LET b == CHOOSE i \in 1..Len(s) :
                      ~IsSpace(s[i]) /\ \A j \in 1..(i - 1) : IsSpace(s[j])
             e == CHOOSE i \in 1..Len(s) :
                      ~IsSpace(s[i]) /\ \A j \in (i + 1)..Len(s) : IsSpace(s[j])
         IN  SubSeq(s, b, e)

\* main.py:87: keyword in sentence_lower
contains(s, sub) ==
    \E i \in 1..(Len(s) - Len(sub) + 1) : SubSeq(s, i, i + Len(sub) - 1) = sub

\* main.py:70: re.split(r'[.!?]+', text)
RECURSIVE re_split(_)
re_split(s) ==
    IF \A i \in 1..Len(s) : s[i] \notin SentenceEnds THEN <<s>>
    ELSE LET b == CHOOSE i \in 1..Len(s) :
                      /\ s[i] \in SentenceEnds
                      /\ \A j \in 1..(i - 1) : s[j] \notin SentenceEnds
             e == CHOOSE i \in b..Len(s) :
                      /\ i = Len(s) \/ s[i + 1] \notin SentenceEnds
                      /\ \A j \in b..i : s[j] \in SentenceEnds
         IN  <<SubSeq(s, 1, b - 1)>> \o re_split(SubSeq(s, e + 1, Len(s)))

\* main.py:93: '. '.join(cleaned_sentences)
RECURSIVE join_sentences(_)
join_sentences(sentences) ==
    IF sentences = <<>> THEN <<>>
    ELSE IF Len(sentences) = 1 THEN sentences[1]
    ELSE sentences[1] \o <<".", " ">> \o join_sentences(Tail(sentences))

\* main.py:81
MIN_SENTENCE_CHARS == 20

\* main.py:90: the ratio 0.3 as SPAM_RATIO_NUM / SPAM_RATIO_DEN
SPAM_RATIO_NUM == 3

SPAM_RATIO_DEN == 10

\* main.py:87: the number of keywords that occur in the sentence
spam_word_count(sentence) ==
    Cardinality({k \in 1..Len(spam_keywords) :
                    contains(lower(sentence), spam_keywords[k])})

\* main.py:88
word_count(sentence) == Len(split(sentence))

\* main.py:81-91, for a stripped sentence: whether it is appended
is_kept(sentence) ==
    /\ ~(Len(sentence) < MIN_SENTENCE_CHARS)
    /\ word_count(sentence) > 0
    /\ SPAM_RATIO_DEN * spam_word_count(sentence)
           < SPAM_RATIO_NUM * word_count(sentence)

\* main.py:70, main.py:77: the stripped sentences of the text
stripped_sentences(s) ==
    [i \in 1..Len(re_split(s)) |-> strip(re_split(s)[i])]

clean_extracted_text(s) ==
    join_sentences(SelectSeq(stripped_sentences(s), is_kept))

(***************************************************************************)
(* clean_extracted_text on its own: pages of up to MaxSentences pieces,    *)
(* each a sentence with its end mark.                                      *)
(***************************************************************************)
PieceNames == {"menu", "fragment", "news", "boilerplate", "mention", "repeat", "edge"}

PieceOf(name) ==
    CASE name = "menu" ->
           <<"H", "o", "m", "e", ".", " ">>
      [] name = "fragment" ->
           <<"t", "h", "e", " ", "b", "r", "i", "d", "g", "e", " ", "c",
             "o", "l", "l", "a", "p", "s", "e", ".", " ">>
      [] name = "news" ->
           <<"t", "h", "e", " ", "b", "r", "i", "d", "g", "e", " ", "c",
             "o", "l", "l", "a", "p", "s", "e", "d", ".", " ">>
      [] name = "boilerplate" ->
           <<"S", "u", "b", "s", "c", "r", "i", "b", "e", " ", "t", "o",
             " ", "o", "u", "r", " ", "N", "e", "w", "s", "l", "e", "t",
             "t", "e", "r", "!", " ">>
      [] name = "mention" ->
           <<"S", "u", "b", "s", "c", "r", "i", "b", "e", " ", "t", "o",
             "d", "a", "y", ",", " ", "t", "h", "e", " ", "b", "r", "i",
             "d", "g", "e", " ", "c", "o", "l", "l", "a", "p", "s", "e",
             "d", " ", "y", "e", "s", "t", "e", "r", "d", "a", "y", " ",
             "k", "i", "l", "l", "i", "n", "g", " ", "t", "h", "r", "e",
             "e", ".", " ">>
      [] name = "repeat" ->
           <<"S", "u", "b", "s", "c", "r", "i", "b", "e", " ", "s", "u",
             "b", "s", "c", "r", "i", "b", "e", " ", "s", "u", "b", "s",
             "c", "r", "i", "b", "e", " ", "s", "u", "b", "s", "c", "r",
             "i", "b", "e", "?", "!", " ">>
      [] name = "edge" ->
           <<"C", "o", "p", "y", "r", "i", "g", "h", "t", " ", "n", "e",
             "w", "s", "l", "e", "t", "t", "e", "r", ":", " ", "s", "i",
             "g", "n", " ", "u", "p", " ", "a", "n", "d", " ", "r", "e",
             "a", "d", " ", "t", "h", "e", " ", "b", "r", "i", "d", "g",
             "e", " ", "n", "e", "w", "s", " ", "t", "o", "d", "a", "y",
             ".", " ">>

RECURSIVE PageOf(_)
PageOf(names) ==
    IF names = <<>> THEN <<>> ELSE PieceOf(Head(names)) \o PageOf(Tail(names))

ExtractedTexts ==
    {PageOf(names) : names \in UNION {[1..k -> PieceNames] : k \in 0..MaxSentences}}

InitClean ==
    /\ InitPipeline
    /\ InitChunker
    /\ InitSearch
    /\ InitAnalyze
    /\ extracted_text \in ExtractedTexts
    /\ cleaned_text = <<>>
    /\ cleaned = FALSE

\* main.py:60-93
CleanExtractedText ==
    /\ ~cleaned
    /\ cleaned_text' = clean_extracted_text(extracted_text)
    /\ cleaned' = TRUE
    /\ UNCHANGED extracted_text
    /\ UNCHANGED <<pipeline_vars, chunker_vars, search_vars, analyze_vars>>

NextClean == CleanExtractedText

SpecClean == InitClean /\ [][NextClean]_vars

\* The number of places of s where sub occurs.
occurrences(s, sub) ==
    Cardinality({i \in 1..(Len(s) - Len(sub) + 1) :
                    SubSeq(s, i, i + Len(sub) - 1) = sub})

\* The occurrences in s of the first k spam keywords.
RECURSIVE spam_hits(_, _)
spam_hits(s, k) ==
    IF k = 0 THEN 0
    ELSE occurrences(lower(s), spam_keywords[k]) + spam_hits(s, k - 1)

\* The claimed condition for keeping a segment: at least 20 characters and
\* spam_hits / word_count below 0.3.
KeptAsClaimed(segment) ==
    /\ Len(segment) >= 20
    /\ 10 * spam_hits(segment, Len(spam_keywords)) < 3 * Len(split(segment))

\* C11: the sanitized text is made of exactly the segments of at least 20
\* characters whose spam_hits / word_count is below 0.3, spam_hits being the
\* number of occurrences of the spam keywords in the segment, in their
\* original order.
C11_KeepsLongSegmentsBelowSpamRatio ==
    cleaned =>
        cleaned_text =
            join_sentences(SelectSeq(stripped_sentences(extracted_text),
                                     KeptAsClaimed))

(***************************************************************************)
(* Further claims about get_truthfulness_score, one evaluation at a time   *)
(* (Spec).                                                                 *)
(***************************************************************************)
\* The dict carries an error and no score, rating, label or confidence.
IsFailure(r) ==
    /\ "error" \in DOMAIN r
    /\ r.score = "None"
    /\ r.planet = "None"
    /\ r.label = "None"
    /\ r.confidence = "None"

\* C12: an evaluation of a URL leaves extraction either with a text of at
\* least 100 characters, to look it up in the cache, or, the fetch having
\* failed or the sanitized text being empty or shorter, with a failure
\* result, no chunk scored and the cache as it was; the cache never holds a
\* failure, so that a later evaluation of the URL fetches again.
C12_ExtractionFailureReturnsErrorUncached ==
    [][\A p \in Procs :
          (pc[p] = "resolve" /\ pc'[p] # "resolve") =>
              /\ is_url(article_input[p]) =>
                    \/ /\ pc'[p] = "check_cache"
                       /\ article_text'[p] \in TextNames
                       /\ Len(TextOf(article_text'[p])) >= MIN_ARTICLE_CHARS
                    \/ /\ pc'[p] = "done"
                       /\ IsFailure(ret'[p])
                       /\ fake_news_scores'[p] = <<>>
                       /\ satire_scores'[p] = <<>>
                       /\ result'[p] = NoResult
                       /\ _cache' = _cache
              /\ \A k \in DOMAIN _cache' : IsResult(_cache'[k][1])
      ]_vars

\* A URL evaluation that failed while the cache holds an earlier result.
C12_Witness ==
    \E p \in Procs :
        /\ pc[p] = "done"
        /\ is_url(article_input[p])
        /\ IsFailure(ret[p])
        /\ _cache # <<>>

(***************************************************************************)
(* A further claim about chunk_text (SpecChunk).                           *)
(***************************************************************************)
\* C13 as claimed: a word longer than the character budget is never split
\* and is the only word of its chunk.
C13_OverlongWordAloneInChunk ==
    returned =>
        /\ flatten(ChunkWords) = split(text)
        /\ \A i \in 1..Len(chunks) : \A k \in 1..Len(ChunkWords[i]) :
               Len(ChunkWords[i][k]) > Budget => Len(ChunkWords[i]) = 1

\* C13 as amended: a word longer than the character budget is never split
\* and is the last word of its chunk; the words before it in that chunk,
\* each with the space after it, are within the budget.
C13_OverlongWordWholeAndLastInChunk ==
    returned =>
        /\ flatten(ChunkWords) = split(text)
        /\ \A i \in 1..Len(chunks) : \A k \in 1..Len(ChunkWords[i]) :
               Len(ChunkWords[i][k]) > Budget =>
                   /\ k = Len(ChunkWords[i])
                   /\ Len(chunks[i]) - Len(ChunkWords[i][k]) <= Budget

\* A chunk of two words or more that ends with a word longer than a
\* budget of 4 characters.
C13_Witness ==
    /\ returned
    /\ Budget > 0
    /\ \E i \in 1..Len(chunks) :
           /\ Len(ChunkWords[i]) >= 2
           /\ Len(Last(ChunkWords[i])) > Budget

\* C14: each model is loaded at most once: no evaluation after the first
\* attempts another load, whether or not the first load of the satire model
\* succeeded.
C14_EachModelLoadedAtMostOnce ==
    /\ load_attempts.model <= 1
    /\ load_attempts.satire <= 1

\* C15: the source of every result an evaluation returns is "URL" when its
\* input starts with http:// or https:// and "Text" otherwise, also when
\* the result comes from the cache.
C15_SourceMatchesInputKind ==
    \A p \in Procs :
        (pc[p] = "done" /\ IsResult(ret[p])) =>
            ret[p].source = IF is_url(article_input[p]) THEN "URL" ELSE "Text"

(***************************************************************************)
(* A further claim about the threaded server (SpecConc).                   *)
(***************************************************************************)
\* C16: no cache operation of an evaluation fails, however the evaluations
\* of one text interleave: a lookup that finds an expired entry completes
\* as a miss even when another request deletes the entry meanwhile.
C16_NoCacheOperationFails ==
    \A p \in Procs : pc[p] = "raised" => exc[p] # "KeyError"

(***************************************************************************)
(* MediaCloudCollector.search_articles, mediacloud_integration.py:42-151.  *)
(* An article is the metadata of a story: its title and the name of its    *)
(* url among the inputs of get_truthfulness_score.                         *)
(***************************************************************************)
\* mediacloud_integration.py:27
MEDIACLOUD_CACHE_TTL_SECONDS == 3600

Digits == <<"0", "1", "2", "3", "4", "5", "6", "7", "8", "9">>

\* str(n) of a natural number, as the f-string formats it
RECURSIVE str(_)
str(n) ==
    IF n < 10 THEN <<Digits[n + 1]>>
    ELSE str(n \div 10) \o <<Digits[(n % 10) + 1]>>

\* mediacloud_integration.py:55: f"{query}_{limit}"
search_cache_key(query, limit) == query \o <<"_">> \o str(limit)

\* mediacloud_integration.py:142
mediacloud_is_fresh(timestamp) == now - timestamp < MEDIACLOUD_CACHE_TTL_SECONDS

\* mediacloud_integration.py:137-147: the cached list in a one-element
\* sequence, or <<>> for None.
_check_cache(cache_key) ==
    IF cache_key \in DOMAIN _mediacloud_cache
    THEN IF mediacloud_is_fresh(_mediacloud_cache[cache_key][2])
         THEN <<_mediacloud_cache[cache_key][1]>>
         ELSE <<>>
    ELSE <<>>

\* mediacloud_integration.py:144-145: the cache after _check_cache
cache_after_check(cache_key) ==
    IF /\ cache_key \in DOMAIN _mediacloud_cache
       /\ ~mediacloud_is_fresh(_mediacloud_cache[cache_key][2])
    THEN cache_del(_mediacloud_cache, cache_key)
    ELSE _mediacloud_cache

\* mediacloud_integration.py:102-135: the metadata in a one-element
\* sequence, or <<>> for None when the title or the url is missing.
get_article_metadata(story) ==
    IF story.title = <<>> \/ RawInput(story.url) = <<>> THEN <<>>
    ELSE <<[title |-> story.title, url |-> story.url]>>

\* mediacloud_integration.py:225
query_words(query) ==
    LET words == SelectSeq(split(query), LAMBDA w : Len(strip(w)) > 2)
    IN  [i \in 1..Len(words) |-> strip(lower(words[i]))]

\* mediacloud_integration.py:233-236
title_matches(title, query) ==
    Cardinality({i \in 1..Len(query_words(query)) :
                    contains(title, query_words(query)[i])})

\* mediacloud_integration.py:219-258, the definition in force: the score as
\* the exact quotient num/den, den the number of query words.
_calculate_relevance_score(article_data, query) ==
    LET title == lower(article_data.title)
        n == Len(query_words(query))
        m == title_matches(title, query)
        title_word_count == Len(split(title))
    IN  IF n = 0 THEN Frac(0, 1)
        ELSE Frac(  n * (IF n > 1 /\ contains(title, lower(query))
                         THEN 10 * m ELSE 0)
                  + 20 * m
                  + n * (IF m > 1 THEN 2 * m ELSE 0)
                  - n * (IF title_word_count > 15 THEN 2 ELSE 0)
                  + n * (IF title_word_count <= 10 /\ m > 0 THEN 3 ELSE 0),
                  n)

\* mediacloud_integration.py:81-85
RECURSIVE scored_articles_of(_, _)
scored_articles_of(stories_list, query) ==
    IF stories_list = <<>> THEN <<>>
    ELSE LET article_data == get_article_metadata(Head(stories_list))
             rest == scored_articles_of(Tail(stories_list), query)
         IN  IF article_data = <<>> THEN rest
             ELSE <<<<article_data[1],
                      _calculate_relevance_score(article_data[1], query)>>>>
                      \o rest

\* mediacloud_integration.py:89: list.sort(key=score, reverse=True), which
\* is stable: x goes after every element whose score is not lower.
insert_by_score(sorted, x) ==
    IF \A i \in 1..Len(sorted) : ~Less(sorted[i][2], x[2])
    THEN Append(sorted, x)
    ELSE LET p == CHOOSE i \in 1..Len(sorted) :
                      /\ Less(sorted[i][2], x[2])
                      /\ \A j \in 1..(i - 1) : ~Less(sorted[j][2], x[2])
         IN  SubSeq(sorted, 1, p - 1) \o <<x>> \o SubSeq(sorted, p, Len(sorted))

RECURSIVE sort_by_score(_)
sort_by_score(scored) ==
    IF scored = <<>> THEN <<>>
    ELSE insert_by_score(sort_by_score(SubSeq(scored, 1, Len(scored) - 1)),
                         scored[Len(scored)])

\* mediacloud_integration.py:76-90
articles_of(stories_list, query) ==
    LET scored_articles == sort_by_score(scored_articles_of(stories_list, query))
    IN  [i \in 1..Len(scored_articles) |-> scored_articles[i][1]]

\* mediacloud_integration.py:57: `if cached_result:` of a list or None
is_nonempty_list(cached_result) ==
    cached_result # <<>> /\ cached_result[1] # <<>>

\* mediacloud_integration.py:42-100.  outcome: whether mc.story_list
\* raises, and the stories it gives otherwise.
search_articles_returns(query, limit, outcome) ==
    LET cached_result == _check_cache(search_cache_key(query, limit))
    IN  IF is_nonempty_list(cached_result) THEN cached_result[1]
        ELSE IF outcome.raises THEN <<>>
        ELSE articles_of(outcome.stories_list, query)

search_articles_cache(query, limit, outcome) ==
    LET cache_key == search_cache_key(query, limit)
    IN  IF is_nonempty_list(_check_cache(cache_key)) \/ outcome.raises
        THEN cache_after_check(cache_key)
        ELSE cache_put(cache_after_check(cache_key), cache_key,
                       <<articles_of(outcome.stories_list, query), now>>)

search_articles_calls_api(query, limit) ==
    ~is_nonempty_list(_check_cache(search_cache_key(query, limit)))

(***************************************************************************)
(* search_articles on its own, one call after another.                     *)
(***************************************************************************)
SearchQueries == {<<"b", "r", "i", "d", "g", "e">>, <<"T", "h", "e", " ", "b", "r", "i", "d", "g", "e">>}

SearchLimits == {20}

Stories ==
    {[title |-> <<"B", "r", "i", "d", "g", "e", " ", "c", "o", "l", "l", "a", "p", "s", "e", "d">>, url |-> "url"],
     [title |-> <<"t", "h", "e", " ", "b", "r", "i", "d", "g", "e">>, url |-> "url2"],
     [title |-> <<>>, url |-> "url"]}

StoryLists ==
    {s \in UNION {[1..k -> Stories] : k \in 0..MaxStories} :
        \A i, j \in 1..Len(s) : i # j => s[i] # s[j]}

ApiOutcomes ==
    {[raises |-> TRUE, stories_list |-> <<>>]}
        \cup {[raises |-> FALSE, stories_list |-> s] : s \in StoryLists}

\* mediacloud_integration.py:42-100
SearchArticles(query, limit, outcome) ==
    /\ apc = "idle"
    /\ search_args' = <<query, limit>>
    /\ articles' = search_articles_returns(query, limit, outcome)
    /\ story_list_called' = search_articles_calls_api(query, limit)
    /\ _mediacloud_cache' = search_articles_cache(query, limit, outcome)
    /\ UNCHANGED <<pipeline_vars, chunker_vars, cleaner_vars, analyze_vars>>

NextSearch ==
    \/ \E d \in TickSteps : Tick(d)
    \/ \E query \in SearchQueries, limit \in SearchLimits, outcome \in ApiOutcomes :
           SearchArticles(query, limit, outcome)

SpecSearch == Init /\ [][NextSearch]_vars

\* C18: a search for a query and limit whose entry in the cache, written by
\* a search that completed without error, is younger than 3600 s returns
\* the cached list, whatever it is, and does not call the MediaCloud API.
C18_SearchWithinTtlServedFromCache ==
    [][(now' = now /\ search_args' # <<>>) =>
           LET cache_key == search_cache_key(search_args'[1], search_args'[2])
           IN  (/\ cache_key \in DOMAIN _mediacloud_cache
                /\ now - _mediacloud_cache[cache_key][2] < 3600) =>
                   /\ ~story_list_called'
                   /\ articles' = _mediacloud_cache[cache_key][1]
      ]_vars

(***************************************************************************)
(* analyze_articles_by_planet, mediacloud_integration.py:261-368, as       *)
(* called by the route /api/similar-articles, server.py:77-131.            *)
(***************************************************************************)
\* mediacloud_integration.py:290
ANALYZE_SEARCH_LIMIT == 20

PlanetSet == {PLANETS[i] : i \in 1..Len(PLANETS)}

\* mediacloud_integration.py:337 with <= for <.
has_space_inclusive(group, limit) == Len(group) <= limit

\* mediacloud_integration.py:337
has_space(group, limit) == Len(group) < limit

\* mediacloud_integration.py:322-333
article_result_of(article, credibility_result) ==
    [title             |-> article.title,
     url               |-> article.url,
     credibility_score |-> credibility_result.score,
     fake_news_score   |-> credibility_result.fake_news_score,
     sarcasm_score     |-> credibility_result.sarcasm_score,
     planet            |-> credibility_result.planet]

\* mediacloud_integration.py:346-349
without_empty_groups(groups) ==
    [planet \in {pl \in DOMAIN groups : groups[pl] # <<>>} |-> groups[planet]]

\* mediacloud_integration.py:276-284
no_api_key_analysis ==
    [error             |-> "MediaCloud API key not configured",
     results_by_planet |-> <<>>,
     total_articles    |-> 0]

\* mediacloud_integration.py:292-299
no_articles_analysis ==
    [results_by_planet |-> <<>>,
     total_articles    |-> 0,
     message           |-> "No articles found for the given query"]

\* mediacloud_integration.py:351-358
analysis_of(groups, total, limit) ==
    [results_by_planet         |-> without_empty_groups(groups),
     total_articles            |-> total,
     articles_per_planet_limit |-> limit]

\* mediacloud_integration.py:273-303: up to the loop over the articles.
AnalyzeStart(p, query, limit, api_key, outcome) ==
    /\ apc = "idle"
    /\ pc[p] = "idle"
    /\ articles_per_planet' = limit
    /\ IF ~api_key
       THEN /\ analysis' = no_api_key_analysis
            /\ apc' = "returned"
            /\ UNCHANGED <<search_vars, article_index, results_by_planet,
                           total_processed>>
       ELSE /\ search_args' = <<query, ANALYZE_SEARCH_LIMIT>>
            /\ articles' =
                   search_articles_returns(query, ANALYZE_SEARCH_LIMIT, outcome)
            /\ story_list_called' =
                   search_articles_calls_api(query, ANALYZE_SEARCH_LIMIT)
            /\ _mediacloud_cache' =
                   search_articles_cache(query, ANALYZE_SEARCH_LIMIT, outcome)
            /\ IF articles' = <<>>
               THEN /\ analysis' = no_articles_analysis
                    /\ apc' = "returned"
                    /\ UNCHANGED <<article_index, results_by_planet,
                                   total_processed>>
               ELSE /\ analysis' = analysis
                    /\ apc' = "loop"
                    /\ article_index' = 1
                    /\ results_by_planet' = [planet \in PlanetSet |-> <<>>]
                    /\ total_processed' = 0
    /\ UNCHANGED <<pipeline_vars, chunker_vars, cleaner_vars>>

\* mediacloud_integration.py:306-315 and 346-358: the loop ends, or the next
\* article's url is handed to get_truthfulness_score.
AnalyzeLoop(p) ==
    /\ apc = "loop"
    /\ IF \/ article_index > Len(articles)
          \/ total_processed >= articles_per_planet * Len(PLANETS)
       THEN /\ analysis' = analysis_of(results_by_planet, total_processed,
                                       articles_per_planet)
            /\ apc' = "returned"
            /\ UNCHANGED <<pc, article_input, article_text, source, cached,
                           fake_news_scores, satire_scores, final_score,
                           result, ret, exc>>
       ELSE /\ apc' = "scoring"
            /\ analysis' = analysis
            /\ pc' = [pc EXCEPT ![p] = "initialize_model"]
            /\ article_input' = [article_input EXCEPT ![p] =
                                    articles[article_index].url]
            /\ article_text' = [article_text EXCEPT ![p] = "None"]
            /\ source' = [source EXCEPT ![p] = "None"]
            /\ cached' = [cached EXCEPT ![p] = <<>>]
            /\ fake_news_scores' = [fake_news_scores EXCEPT ![p] = <<>>]
            /\ satire_scores' = [satire_scores EXCEPT ![p] = <<>>]
            /\ final_score' = [final_score EXCEPT ![p] = Frac(0, 1)]
            /\ result' = [result EXCEPT ![p] = NoResult]
            /\ ret' = [ret EXCEPT ![p] = NoResult]
            /\ exc' = [exc EXCEPT ![p] = "None"]
    /\ UNCHANGED <<_cache, _model, _satire_model, load_attempts, now>>
    /\ UNCHANGED <<articles_per_planet, article_index, results_by_planet,
                   total_processed>>
    /\ UNCHANGED <<chunker_vars, cleaner_vars, search_vars>>

\* mediacloud_integration.py:315-343: get_truthfulness_score has returned or
\* raised; the article joins the group of its planet if there is space.
AnalyzeCollect(p) ==
    /\ apc = "scoring"
    /\ pc[p] \in {"done", "raised"}
    /\ IF pc[p] = "done" /\ "error" \notin DOMAIN ret[p]
          /\ has_space(results_by_planet[ret[p].planet], articles_per_planet)
       THEN /\ results_by_planet' =
                   [results_by_planet EXCEPT ![ret[p].planet] =
                       Append(@, article_result_of(articles[article_index], ret[p]))]
            /\ total_processed' = total_processed + 1
       ELSE UNCHANGED <<results_by_planet, total_processed>>
    /\ article_index' = article_index + 1
    /\ apc' = "loop"
    /\ pc' = [pc EXCEPT ![p] = "idle"]
    /\ UNCHANGED <<_cache, _model, _satire_model, load_attempts, now,
                   article_input, article_text, source, cached,
                   fake_news_scores, satire_scores, final_score, result, ret,
                   exc>>
    /\ UNCHANGED <<articles_per_planet, analysis>>
    /\ UNCHANGED <<chunker_vars, cleaner_vars, search_vars>>

\* server.py:104-131: the route answers.
AnalyzeRespond ==
    /\ apc = "returned"
    /\ apc' = "idle"
    /\ articles_per_planet' = 1
    /\ article_index' = 0
    /\ results_by_planet' = <<>>
    /\ total_processed' = 0
    /\ analysis' = NoResult
    /\ UNCHANGED <<pipeline_vars, chunker_vars, cleaner_vars, search_vars>>

AnalyzeQueries == {<<"b", "r", "i", "d", "g", "e">>}

\* server.py:90-97: articles_per_planet is within 1..10
AnalyzeLimits == 1..MaxPerPlanet

AnalyzePages == {"None", "page"}

AnalyzeRealProbs == {0, 88888}

AnalyzeSarcasmProbs == {0}

NextAnalyze ==
    \/ \E d \in ConcTickSteps : Tick(d)
    \/ \E p \in MainThread, query \in AnalyzeQueries, limit \in AnalyzeLimits,
          api_key \in BOOLEAN, outcome \in ApiOutcomes :
           AnalyzeStart(p, query, limit, api_key, outcome)
    \/ \E p \in MainThread : AnalyzeLoop(p)
    \/ \E p \in MainThread :
           Evaluate(p, AnalyzePages, AnalyzeRealProbs, AnalyzeSarcasmProbs)
    \/ \E p \in MainThread : AnalyzeCollect(p)
    \/ AnalyzeRespond

SpecAnalyze == Init /\ [][NextAnalyze]_vars

\* The articles in the first k planet groups.
RECURSIVE GroupSizes(_, _)
GroupSizes(groups, k) ==
    IF k = 0 THEN 0
    ELSE (IF PLANETS[k] \in DOMAIN groups THEN Len(groups[PLANETS[k]]) ELSE 0)
             + GroupSizes(groups, k - 1)

\* C17: an article whose analysis failed or raised joins no group, any
\* other joins the group of its own planet rating when that group is below
\* articles_per_planet and no group otherwise; in the returned analysis no
\* group is empty or holds more than articles_per_planet articles, each
\* article is in the group of its planet, and total_articles is the sum of
\* the group sizes, at most 9 x articles_per_planet.
C17_GroupsBoundedByPlanetAndCounted ==
    [][\A p \in MainThread :
          /\ (apc = "scoring" /\ apc' = "loop") =>
                 IF pc[p] = "raised" \/ ~IsResult(ret[p])
                 THEN results_by_planet' = results_by_planet
                 ELSE \A planet \in PlanetSet :
                          IF /\ planet = ret[p].planet
                             /\ Len(results_by_planet[planet]) < articles_per_planet
                          THEN /\ Len(results_by_planet'[planet])
                                      = Len(results_by_planet[planet]) + 1
                               /\ Last(results_by_planet'[planet]).url
                                      = articles[article_index].url
                               /\ Last(results_by_planet'[planet]).planet = planet
                          ELSE results_by_planet'[planet] = results_by_planet[planet]
          /\ (apc' = "returned" /\ "error" \notin DOMAIN analysis') =>
                 LET groups == analysis'.results_by_planet
                 IN  /\ articles_per_planet' >= 1
                     /\ DOMAIN groups \subseteq PlanetSet
                     /\ \A planet \in DOMAIN groups :
                            /\ groups[planet] # <<>>
                            /\ Len(groups[planet]) <= articles_per_planet'
                            /\ \A i \in 1..Len(groups[planet]) :
                                   groups[planet][i].planet = planet
                     /\ analysis'.total_articles = GroupSizes(groups, Len(PLANETS))
                     /\ analysis'.total_articles
                            <= Len(PLANETS) * articles_per_planet'
      ]_vars

\* An analysis has returned one group of one article for two articles found:
\* the second article was rated like the first and its group was full.
C17_Witness ==
    \E p \in MainThread :
        /\ apc = "returned"
        /\ articles_per_planet = 1
        /\ Len(articles) = 2
        /\ IsResult(ret[p])
        /\ analysis.total_articles = 1
        /\ ret[p].planet \in DOMAIN analysis.results_by_planet
        /\ analysis.results_by_planet[ret[p].planet][1].url = articles[1].url

====
